---- MODULE Spec2Model ----
(***************************************************************************)
(* Model of src/App.tsx: the React component App with its augmentation     *)
(* engine (applyAugmentation) and its batch driver (handleGenerate).       *)
(*                                                                         *)
(* Spec     the component as a state machine: host events (upload, reset,  *)
(*          sliders, generate) interleaved with the batch driver at its    *)
(*          awaits.                                                        *)
(* SpecAug  one call of applyAugmentation, stage by stage, on inputs drawn *)
(*          from bounded sets.                                             *)
(* SpecName the file names applyAugmentation gives to two samples.         *)
(* SpecFair Spec under fair delivery of load events, timers and script     *)
(*          steps.                                                         *)
(* SpecPreview  uploads and batches together with the events of the        *)
(*          preview modal.                                                 *)
(*                                                                         *)
(* A value of Math.random() is a draw k in 0..Den-1 standing for k/Den.    *)
(***************************************************************************)
EXTENDS Integers, Sequences, FiniteSets, TLC

VARIABLES
    sourceImage,   \* useState sourceImage: NoImage or a file
    isProcessing,  \* useState isProcessing
    results,       \* useState results: sequence of GeneratedImage
    params,        \* useState params
    reading,       \* files handed to a FileReader whose onload is pending
    pc,            \* position of the running handleGenerate call
    img,           \* handleGenerate: const img
    p,             \* handleGenerate: the params of the render that was clicked
    i,             \* handleGenerate: loop variable
    newResults,    \* handleGenerate: const newResults
    error,         \* value the handleGenerate promise rejected with, or NoError
    drawn,         \* Math.random() calls made by the latest applyAugmentation call
    sinceYield,    \* samples generated since the driver last resumed from a wait
    withdrawn,     \* the host reset the source while this batch was running
    hostAt,        \* pc at which the latest host event ran, or "none"
    moves,         \* slider changes so far
    uploads,       \* file selections so far
    batches,       \* handleGenerate calls so far
    aug,           \* SpecAug: the applyAugmentation call in progress
    previewIndex,  \* useState previewIndex: NullIndex, NaNIndex or a number
    naming         \* SpecName: two samples of one batch and their file names

appVars   == <<sourceImage, isProcessing, results, params, reading>>
batchVars == <<pc, img, p, i, newResults, error, drawn, sinceYield, withdrawn>>
hostVars  == <<hostAt, moves, uploads, batches>>
sideVars  == <<previewIndex, naming>>
vars      == <<appVars, batchVars, hostVars, aug, sideVars>>

------------------------------------------------------------------------------
(* Bounds *)

MaxMoves   == 1     \* slider changes explored
MaxUploads == 2     \* file selections explored
MaxBatches == 2     \* handleGenerate calls explored
DrawScale  == 1     \* refinement of the grid of random draws

------------------------------------------------------------------------------
(* Program constants *)

AUGMENTATION_COUNT == 20
YieldEvery         == 4
InitHarshness      == 40
InitLightAging     == 40
InitDirtiness      == 30
SliderMax          == 100
FogThreshold       == 50
RainThreshold      == 70
GlareThreshold     == 60
NoiseDivisor       == 5000
RotSpan            == 40
GeometricDraws     == 7

------------------------------------------------------------------------------
(* Random draws: k stands for the value k/Den of Math.random(), in [0,1) *)

Den      == 100 * DrawScale
Draws    == 0 .. (Den - 1)
\* midpoints of the Den \div 2 cells of equal width: a uniform sample of [0,1)
MidDraws == {k \in Draws : k % 2 = 1}
LoDraw   == 0
HiDraw   == Den - 1

------------------------------------------------------------------------------
(* Files the user can select.  width/height are those of the decoded       *)
(* HTMLImageElement; decodable = the element fires its load event.         *)

NoImage == [id |-> "none", width |-> 0, height |-> 0, decodable |-> FALSE]
FileA   == [id |-> "A", width |-> 2, height |-> 1, decodable |-> TRUE]
FileB   == [id |-> "B", width |-> 1, height |-> 1, decodable |-> TRUE]
FileZ   == [id |-> "Z", width |-> 0, height |-> 1, decodable |-> TRUE]
FileU   == [id |-> "U", width |-> 0, height |-> 0, decodable |-> FALSE]
Files   == {FileA, FileB, FileZ, FileU}

NoError == [name |-> "none", failedAtIndex |-> -1]

InitParams ==
    [harshness |-> InitHarshness, lightAging |-> InitLightAging, dirtiness |-> InitDirtiness]

------------------------------------------------------------------------------
(* applyAugmentation, stage by stage (pure parts) *)

CanvasOfSwapped(im) == [width |-> im.height, height |-> im.width]

\* canvas.width = img.width; canvas.height = img.height
CanvasOf(im) == [width |-> im.width, height |-> im.height]

\* data.length / 4
PixelCount(c) == c.width * c.height

RotationEveryIndex(u, index) == (2 * u - Den) * (RotSpan \div 2)

\* rot = (Math.random() - 0.5) * 40 * (index === 0 ? 0 : 1), in units of 1/Den degree
Rotation(u, index) == (2 * u - Den) * (RotSpan \div 2) * (IF index = 0 THEN 0 ELSE 1)

\* ctx.getImageData(0, 0, canvas.width, canvas.height) throws IndexSizeError
\* when the requested width or height is zero
GetImageDataThrows(c) == c.width = 0 \/ c.height = 0

NoiseHitPerFiveHundred(h, u) == u * (NoiseDivisor \div 10) > Den * ((NoiseDivisor \div 10) - h)

\* Math.random() > (1 - (p.harshness / 5000))
NoiseHit(h, u) == u * NoiseDivisor > Den * (NoiseDivisor - h)

FogGateInclusive(h, u) == h >= FogThreshold /\ 2 * u > Den

\* p.harshness > 50 && Math.random() > 0.5
FogGate(h, u) == h > FogThreshold /\ 2 * u > Den

RainGateBelow(h, u) == h > RainThreshold /\ 10 * u < 6 * Den

\* p.harshness > 70 && Math.random() > 0.6
RainGate(h, u) == h > RainThreshold /\ 10 * u > 6 * Den

\* p.lightAging > 60 && Math.random() > 0.7
GlareGate(l, u) == l > GlareThreshold /\ 10 * u > 7 * Den

\* iterations of: rainCount = 100 + Math.random() * 200; for (j = 0; j < rainCount; j++)
RainSegments(u) == 100 + ((200 * u + Den - 1) \div Den)

RainLengthUpToFifty(u) == 10 * Den + 40 * u

\* rlen = 10 + Math.random() * 30, in units of 1/Den
RainLength(u) == 10 * Den + 30 * u

\* Math.floor((p.dirtiness / 100) * 30 * Math.random())
DirtCount(d, u) == (d * 30 * u) \div (100 * Den)

\* the GeneratedImage handed to resolve(): id, and what dataUrl is rendered from
GeneratedImage(im, q, index) ==
    [id |-> index, src |-> im.id,
     width |-> CanvasOf(im).width, height |-> CanvasOf(im).height,
     harshness |-> q.harshness, lightAging |-> q.lightAging, dirtiness |-> q.dirtiness]

\* Math.random() calls of one complete call, given what each stage decided
DrawsOfCall(c, q, noisy, fog, rain, segs, glare, dirt) ==
    GeometricDraws + 7 + PixelCount(c) + Cardinality(noisy)
    + (IF q.harshness > FogThreshold THEN 1 ELSE 0) + (IF fog THEN 1 ELSE 0)
    + (IF q.harshness > RainThreshold THEN 1 ELSE 0) + (IF rain THEN 1 + 3 * segs ELSE 0)
    + (IF q.lightAging > GlareThreshold THEN 1 ELSE 0) + (IF glare THEN 3 ELSE 0)
    + 1 + 8 * dirt + 1

\* The whole call when every Math.random() returns the same value u.
\* ctxOk = canvas.getContext('2d') returned a context (null makes ctx.save() throw).
applyAugmentation(im, q, index, u, ctxOk) ==
    LET c     == CanvasOf(im)
        noisy == {x \in 1 .. PixelCount(c) : NoiseHit(q.harshness, u)}
        fog   == FogGate(q.harshness, u)
        rain  == RainGate(q.harshness, u)
        glare == GlareGate(q.lightAging, u)
    IN  IF ~ctxOk
        THEN [threw |-> TRUE, name |-> "TypeError", drawn |-> GeometricDraws]
        ELSE IF GetImageDataThrows(c)
        THEN [threw |-> TRUE, name |-> "IndexSizeError", drawn |-> GeometricDraws]
        ELSE [threw |-> FALSE, name |-> "none",
              drawn |-> DrawsOfCall(c, q, noisy, fog, rain, RainSegments(u), glare,
                                    DirtCount(q.dirtiness, u)),
              image |-> GeneratedImage(im, q, index)]

------------------------------------------------------------------------------
(* State of the component after the first render *)

\* previewIndex: null, and the NaN that x % 0 evaluates to
NullIndex == -1
NaNIndex  == -2

NamingIdle == [stage |-> "none", tsA |-> 0, iA |-> 0, tsB |-> 0, iB |-> 0,
               nameA |-> <<>>, nameB |-> <<>>]

\* the call in progress: its arguments, the stage about to run, what the stages decided
AugStart(im, q, index, st) ==
    [stage |-> st, im |-> im, q |-> q, index |-> index,
     canvas |-> [width |-> 0, height |-> 0], rot |-> 0, px |-> 0,
     noisy |-> {}, salt |-> {}, fog |-> FALSE, rain |-> FALSE, segs |-> 0, rlen |-> 0,
     glare |-> FALSE, dirt |-> 0, drawn |-> 0, name |-> "none"]

AugIdle == AugStart(NoImage, InitParams, 0, "none")

InitApp ==
    /\ sourceImage = NoImage
    /\ isProcessing = FALSE
    /\ results = <<>>
    /\ params = InitParams
    /\ reading = {}
    /\ pc = "idle"
    /\ img = NoImage
    /\ p = InitParams
    /\ i = 0
    /\ newResults = <<>>
    /\ error = NoError
    /\ drawn = 0
    /\ sinceYield = 0
    /\ withdrawn = FALSE
    /\ hostAt = "none"
    /\ moves = 0
    /\ uploads = 0
    /\ batches = 0
    /\ previewIndex = NullIndex

Init == InitApp /\ aug = AugIdle /\ naming = NamingIdle

------------------------------------------------------------------------------
(* Host events.  A browser task runs only while no script is running: the  *)
(* handleGenerate call is then idle, suspended at one of its awaits on a   *)
(* task (image load, setTimeout), or dead after an uncaught throw.         *)

HostPoints == {"idle", "load", "yield", "failed"}

\* what every host event leaves alone in the running batch
HostStep ==
    /\ pc \in HostPoints
    /\ hostAt' = pc
    /\ UNCHANGED <<pc, img, p, i, newResults, error, drawn, sinceYield, aug, naming>>

\* handleFileUpload: the input is rendered only while !sourceImage
handleFileUpload(f) ==
    /\ HostStep
    /\ sourceImage = NoImage
    /\ uploads < MaxUploads
    /\ uploads' = uploads + 1
    /\ reading' = reading \cup {f}
    /\ results' = <<>>
    /\ UNCHANGED <<sourceImage, isProcessing, params, withdrawn, moves, batches,
                   previewIndex>>

\* reader.onload = (event) => setSourceImage(event.target.result)
readerOnload(f) ==
    /\ HostStep
    /\ f \in reading
    /\ reading' = reading \ {f}
    /\ sourceImage' = f
    /\ UNCHANGED <<isProcessing, results, params, withdrawn, moves, uploads, batches,
                   previewIndex>>

\* onClick={() => setSourceImage(null)}: rendered only while sourceImage
resetSource ==
    /\ HostStep
    /\ sourceImage # NoImage
    /\ sourceImage' = NoImage
    /\ withdrawn' = (withdrawn \/ pc # "idle")
    /\ UNCHANGED <<isProcessing, results, params, reading, moves, uploads, batches,
                   previewIndex>>

\* slider onChange: setParams(prev => ({ ...prev, [field]: parseInt(value) }))
setParams(field, v) ==
    /\ HostStep
    /\ sourceImage # NoImage
    /\ moves < MaxMoves
    /\ moves' = moves + 1
    /\ params[field] # v
    /\ params' = [params EXCEPT ![field] = v]
    /\ UNCHANGED <<sourceImage, isProcessing, results, reading, withdrawn, uploads, batches,
                   previewIndex>>

------------------------------------------------------------------------------
(* handleGenerate *)

\* click on a generate button (disabled={isProcessing}, rendered while sourceImage):
\* runs up to the await of img.onload
handleGenerate ==
    /\ pc \in HostPoints
    /\ sourceImage # NoImage
    /\ ~isProcessing
    /\ batches < MaxBatches
    /\ batches' = batches + 1
    /\ hostAt' = pc
    /\ isProcessing' = TRUE
    /\ results' = <<>>
    /\ img' = sourceImage
    /\ p' = params
    /\ pc' = "load"
    /\ i' = 0
    /\ newResults' = <<>>
    /\ error' = NoError
    /\ drawn' = 0
    /\ sinceYield' = 0
    /\ withdrawn' = FALSE
    /\ UNCHANGED <<sourceImage, params, reading, moves, uploads, aug, sideVars>>

\* img.onload fires (never for an undecodable source): the loop starts
imgOnload ==
    /\ pc = "load"
    /\ img.decodable
    /\ pc' = "run"
    /\ i' = 0
    /\ newResults' = <<>>
    /\ UNCHANGED <<appVars, img, p, error, drawn, sinceYield, withdrawn, hostVars, aug,
                   sideVars>>

YieldsAfterFive(index) == index % (YieldEvery + 1) = 0

BatchParamsLive(captured, current) == current

\* applyAugmentation(img, params, i): params is the const of the render whose
\* handler was clicked, not the state at the time of the call
BatchParams(captured, current) == captured

\* i % 4 === 0
YieldsAfter(index) == index % YieldEvery = 0

\* one iteration of the loop: await applyAugmentation(img, params, i); push;
\* then either the setTimeout await or i++
generateSample ==
    /\ pc = "run"
    /\ i < AUGMENTATION_COUNT
    /\ \E u \in {LoDraw, HiDraw}, ctxOk \in BOOLEAN :
          LET r == applyAugmentation(img, BatchParams(p, params), i, u, ctxOk)
          IN  /\ drawn' = r.drawn
              /\ IF r.threw
                 THEN /\ pc' = "failed"
                      /\ error' = [name |-> r.name, failedAtIndex |-> -1]
                      /\ UNCHANGED <<i, newResults, sinceYield>>
                 ELSE /\ newResults' = Append(newResults, r.image)
                      /\ error' = error
                      /\ sinceYield' = sinceYield + 1
                      /\ IF YieldsAfter(i)
                         THEN pc' = "yield" /\ i' = i
                         ELSE pc' = "run" /\ i' = i + 1
    /\ UNCHANGED <<appVars, img, p, withdrawn, hostVars, aug, sideVars>>

\* the setTimeout(r, 0) callback: the loop goes on with i++
timerFires ==
    /\ pc = "yield"
    /\ pc' = "run"
    /\ i' = i + 1
    /\ sinceYield' = 0
    /\ UNCHANGED <<appVars, img, p, newResults, error, drawn, withdrawn, hostVars, aug,
                   sideVars>>

\* after the loop: setResults(newResults); setIsProcessing(false)
finishBatch ==
    /\ pc = "run"
    /\ i >= AUGMENTATION_COUNT
    /\ results' = newResults
    /\ isProcessing' = FALSE
    /\ pc' = "idle"
    /\ UNCHANGED <<sourceImage, params, reading, img, p, i, newResults, error, drawn,
                   sinceYield, withdrawn, hostVars, aug, sideVars>>

SliderFields == {"harshness", "lightAging", "dirtiness"}
SliderValues == {0, SliderMax}

NextApp ==
    \/ \E f \in Files : handleFileUpload(f)
    \/ \E f \in Files : readerOnload(f)
    \/ resetSource
    \/ \E field \in SliderFields, v \in SliderValues : setParams(field, v)
    \/ handleGenerate
    \/ imgOnload
    \/ generateSample
    \/ timerFires
    \/ finishBatch

Next == NextApp

Spec == Init /\ [][Next]_vars

\* The browser delivers the load event of a decodable image and every timer, and
\* a script that is running runs on.
Fairness ==
    /\ WF_vars(imgOnload)
    /\ WF_vars(generateSample)
    /\ WF_vars(timerFires)
    /\ WF_vars(finishBatch)

SpecFair == Spec /\ Fairness

------------------------------------------------------------------------------
(* The preview modal.  It is a fixed overlay above the page, without a     *)
(* focus trap: the buttons under it stay operable from the keyboard, and   *)
(* the keydown listener is installed whether or not the modal is rendered. *)

\* x % n of JavaScript for x >= 0: NaN when n is 0 or x is NaN
JsMod(x, n) == IF x = NaNIndex \/ n = 0 THEN NaNIndex ELSE x % n

\* x + d of JavaScript: NaN when x is NaN
JsAdd(x, d) == IF x = NaNIndex THEN NaNIndex ELSE x + d

\* handleNext: if (previewIndex === null) return;
\*             setPreviewIndex((previewIndex + 1) % results.length)
NextPreviewIndex(pi, len) ==
    IF pi = NullIndex THEN pi ELSE JsMod(JsAdd(pi, 1), len)

\* handlePrev: if (previewIndex === null) return;
\*             setPreviewIndex((previewIndex - 1 + results.length) % results.length)
PrevPreviewIndex(pi, len) ==
    IF pi = NullIndex THEN pi ELSE JsMod(JsAdd(JsAdd(pi, -1), len), len)

\* results[previewIndex] is defined: the modal is rendered
ModalShown == previewIndex >= 0 /\ previewIndex < Len(results)

PreviewStep ==
    /\ HostStep
    /\ UNCHANGED <<appVars, withdrawn, moves, uploads, batches>>

\* click on a result of the grid (rendered while sourceImage) or on a dot of the modal
openPreview(k) ==
    /\ PreviewStep
    /\ sourceImage # NoImage \/ ModalShown
    /\ k < Len(results)
    /\ previewIndex' = k

\* ArrowRight, or the next button of the modal
handleNext ==
    /\ PreviewStep
    /\ previewIndex' = NextPreviewIndex(previewIndex, Len(results))

\* ArrowLeft, or the previous button of the modal
handlePrev ==
    /\ PreviewStep
    /\ previewIndex' = PrevPreviewIndex(previewIndex, Len(results))

\* Escape (the listener returns first when previewIndex is null), the close
\* button or the backdrop of the modal
closePreview ==
    /\ PreviewStep
    /\ previewIndex # NullIndex
    /\ previewIndex' = NullIndex

\* the events of the modal, with uploads and batches
NextPreview ==
    \/ \E f \in Files : handleFileUpload(f)
    \/ \E f \in Files : readerOnload(f)
    \/ handleGenerate
    \/ imgOnload
    \/ generateSample
    \/ timerFires
    \/ finishBatch
    \/ \E k \in 0 .. (AUGMENTATION_COUNT - 1) : openPreview(k)
    \/ handleNext
    \/ handlePrev
    \/ closePreview

SpecPreview == Init /\ [][NextPreview]_vars

------------------------------------------------------------------------------
(* One call of applyAugmentation, stage by stage *)

\* a few draws spread over [0,1), both ends included
CoarseDraws == {k \in Draws : k % (Den \div 4) = 0} \cup {HiDraw}

AugHarshness  == {0, FogThreshold, FogThreshold + 1, RainThreshold, RainThreshold + 1, SliderMax}
AugLightAging == {0, GlareThreshold, GlareThreshold + 1, SliderMax}
AugDirtiness  == {0, SliderMax}
AugIndexes    == {0, 1, AUGMENTATION_COUNT - 1}
AugImages     == {f \in Files : f.decodable}

InitAug ==
    /\ InitApp
    /\ \E im \in AugImages, h \in AugHarshness, l \in AugLightAging, d \in AugDirtiness,
          index \in AugIndexes :
          aug = AugStart(im, [harshness |-> h, lightAging |-> l, dirtiness |-> d],
                         index, "geometric")
    /\ naming = NamingIdle

StageAfterGlareFirst(st) ==
    CASE st = "geometric"   -> "photometric"
      [] st = "photometric" -> "pixels"
      [] st = "pixels"      -> "glare"
      [] st = "glare"       -> "rain"
      [] st = "rain"        -> "fog"
      [] st = "fog"         -> "artifact"
      [] st = "artifact"    -> "encode"
      [] OTHER              -> "done"

\* the order of the sections of applyAugmentation: A, B (setup, then the pixel
\* loop), C.1, C.2, C.3, D (dirt), D (encode and resolve)
StageAfter(st) ==
    CASE st = "geometric"   -> "photometric"
      [] st = "photometric" -> "pixels"
      [] st = "pixels"      -> "fog"
      [] st = "fog"         -> "rain"
      [] st = "rain"        -> "glare"
      [] st = "glare"       -> "artifact"
      [] st = "artifact"    -> "encode"
      [] OTHER              -> "done"

AugThrow(nm, n) == aug' = [aug EXCEPT !.stage = "threw", !.name = nm, !.drawn = @ + n]

\* A. canvas creation and the geometric draws and painting
augGeometric ==
    /\ aug.stage = "geometric"
    /\ \E u \in CoarseDraws, ctxOk \in BOOLEAN :
          IF ~ctxOk
          THEN aug' = [aug EXCEPT !.stage = "threw", !.name = "TypeError",
                                  !.canvas = CanvasOf(aug.im),
                                  !.rot = Rotation(u, aug.index),
                                  !.drawn = @ + GeometricDraws]
          ELSE aug' = [aug EXCEPT !.stage = StageAfter("geometric"),
                                  !.canvas = CanvasOf(aug.im),
                                  !.rot = Rotation(u, aug.index),
                                  !.drawn = @ + GeometricDraws]
    /\ UNCHANGED <<appVars, batchVars, hostVars, sideVars>>

\* B. getImageData and the per-sample photometric draws
augPhotometric ==
    /\ aug.stage = "photometric"
    /\ IF GetImageDataThrows(aug.canvas)
       THEN AugThrow("IndexSizeError", 0)
       ELSE aug' = [aug EXCEPT !.stage = StageAfter("photometric"), !.px = 1, !.drawn = @ + 7]
    /\ UNCHANGED <<appVars, batchVars, hostVars, sideVars>>

\* B. one iteration of the pixel loop: remap, then salt and pepper
augPixel ==
    /\ aug.stage = "pixels"
    /\ \E u \in Draws :
          LET hit == NoiseHit(aug.q.harshness, u)
          IN  \E v \in (IF hit THEN {LoDraw, HiDraw} ELSE {LoDraw}) :
              aug' = [aug EXCEPT
                        !.noisy = IF hit THEN @ \cup {aug.px} ELSE @,
                        !.salt  = IF hit /\ 2 * v > Den THEN @ \cup {aug.px} ELSE @,
                        !.drawn = @ + 1 + (IF hit THEN 1 ELSE 0),
                        !.px    = @ + 1,
                        !.stage = IF aug.px = PixelCount(aug.canvas)
                                  THEN StageAfter("pixels") ELSE "pixels"]
    /\ UNCHANGED <<appVars, batchVars, hostVars, sideVars>>

\* C.1 fog overlay
augFog ==
    /\ aug.stage = "fog"
    /\ \E u \in Draws :
          LET on == FogGate(aug.q.harshness, u)
          IN  aug' = [aug EXCEPT
                        !.fog   = on,
                        !.drawn = @ + (IF aug.q.harshness > FogThreshold THEN 1 ELSE 0)
                                    + (IF on THEN 1 ELSE 0),
                        !.stage = StageAfter("fog")]
    /\ UNCHANGED <<appVars, batchVars, hostVars, sideVars>>

\* C.2 rain streaks: segs iterations; rlen is the length drawn in any one of them
augRain ==
    /\ aug.stage = "rain"
    /\ \E u \in Draws :
          LET on == RainGate(aug.q.harshness, u)
          IN  \E v \in (IF on THEN CoarseDraws ELSE {LoDraw}),
                 w \in (IF on THEN {LoDraw, HiDraw} ELSE {LoDraw}) :
              LET n == IF on THEN RainSegments(v) ELSE 0
              IN
              aug' = [aug EXCEPT
                        !.rain  = on,
                        !.segs  = n,
                        !.rlen  = IF on THEN RainLength(w) ELSE 0,
                        !.drawn = @ + (IF aug.q.harshness > RainThreshold THEN 1 ELSE 0)
                                    + (IF on THEN 1 + 3 * n ELSE 0),
                        !.stage = StageAfter("rain")]
    /\ UNCHANGED <<appVars, batchVars, hostVars, sideVars>>

\* C.3 sun glare
augGlare ==
    /\ aug.stage = "glare"
    /\ \E u \in Draws :
          LET on == GlareGate(aug.q.lightAging, u)
          IN  aug' = [aug EXCEPT
                        !.glare = on,
                        !.drawn = @ + (IF aug.q.lightAging > GlareThreshold THEN 1 ELSE 0)
                                    + (IF on THEN 3 ELSE 0),
                        !.stage = StageAfter("glare")]
    /\ UNCHANGED <<appVars, batchVars, hostVars, sideVars>>

\* D. dirt marks
augArtifact ==
    /\ aug.stage = "artifact"
    /\ \E u \in CoarseDraws :
          LET n == DirtCount(aug.q.dirtiness, u)
          IN  aug' = [aug EXCEPT !.dirt = n, !.drawn = @ + 1 + 8 * n,
                                  !.stage = StageAfter("artifact")]
    /\ UNCHANGED <<appVars, batchVars, hostVars, sideVars>>

\* D. quality draw, toDataURL and resolve
augEncode ==
    /\ aug.stage = "encode"
    /\ aug' = [aug EXCEPT !.drawn = @ + 1, !.stage = StageAfter("encode")]
    /\ UNCHANGED <<appVars, batchVars, hostVars, sideVars>>

\* the loop of handleGenerate goes on: i++ and the next call, on the same img and
\* params (only the indexes of AugIndexes are followed)
augNext ==
    /\ aug.stage = "done"
    /\ aug.index + 1 \in AugIndexes
    /\ aug' = AugStart(aug.im, aug.q, aug.index + 1, "geometric")
    /\ UNCHANGED <<appVars, batchVars, hostVars, sideVars>>

NextAug ==
    \/ augGeometric
    \/ augPhotometric
    \/ augPixel
    \/ augFog
    \/ augRain
    \/ augGlare
    \/ augArtifact
    \/ augEncode
    \/ augNext

SpecAug == InitAug /\ [][NextAug]_vars

------------------------------------------------------------------------------
(* The file names of two samples of one batch *)

MaxStamp == 12      \* timestamps explored: 1 .. MaxStamp

\* the decimal digits of a number, as template literals print it
DigitChars == <<"0", "1", "2", "3", "4", "5", "6", "7", "8", "9">>

RECURSIVE Digits(_)
Digits(n) ==
    IF n < 10 THEN <<DigitChars[n + 1]>>
    ELSE Digits(n \div 10) \o <<DigitChars[(n % 10) + 1]>>

FileNameUnseparated(ts, index) ==
    <<"a", "u", "g", "_">> \o Digits(ts) \o Digits(index) \o <<".", "j", "p", "g">>

\* name: `aug_${timestamp}_${index}.jpg`
FileName(ts, index) ==
    <<"a", "u", "g", "_">> \o Digits(ts) \o <<"_">> \o Digits(index)
        \o <<".", "j", "p", "g">>

Timestamps == 1 .. MaxStamp

\* two calls of one batch: their indexes, and what new Date().getTime() returned
InitName ==
    /\ InitApp
    /\ aug = AugIdle
    /\ \E tsA \in Timestamps, tsB \in Timestamps,
          iA \in 0 .. (AUGMENTATION_COUNT - 1), iB \in 0 .. (AUGMENTATION_COUNT - 1) :
          naming = [NamingIdle EXCEPT !.stage = "encode", !.tsA = tsA, !.iA = iA,
                                      !.tsB = tsB, !.iB = iB]

\* both calls reach resolve({ id, dataUrl, name })
nameSamples ==
    /\ naming.stage = "encode"
    /\ naming' = [naming EXCEPT !.stage = "done",
                                !.nameA = FileName(naming.tsA, naming.iA),
                                !.nameB = FileName(naming.tsB, naming.iB)]
    /\ UNCHANGED <<appVars, batchVars, hostVars, aug, previewIndex>>

NextName == nameSamples

SpecName == InitName /\ [][NextName]_vars

------------------------------------------------------------------------------
(* Properties *)

Positive(im) == im.width > 0 /\ im.height > 0

\* C1: a completed batch on a source of positive width and height publishes
\* exactly AUGMENTATION_COUNT samples, the sample at position k carries index k
\* (0-based), and every sample's canvas has the source's width and height.
C1_CompleteBatch ==
    (results # <<>>) =>
        /\ Positive(img)
        /\ Len(results) = AUGMENTATION_COUNT
        /\ \A k \in 1 .. Len(results) :
              /\ results[k].id = k - 1
              /\ results[k].width = img.width
              /\ results[k].height = img.height

C1_Witness == results # <<>> /\ img = FileA /\ pc = "idle"

\* C2 (as claimed): a call on a source of zero width or height fails with
\* InvalidInput before any stage has run and before any random draw is made,
\* with no sample produced.
C2_ValidatesSourceFirst ==
    (pc = "failed" /\ ~Positive(img)) =>
        /\ error.name = "InvalidInput"
        /\ drawn = 0
        /\ newResults = <<>>

\* C3 (as claimed): when a stage of the sample at index k fails nothing is
\* published and the call surfaces BatchGenerationError with failedAtIndex = k.
C3_AllOrNothingWithIndex ==
    (pc = "failed") =>
        /\ results = <<>>
        /\ error.name = "BatchGenerationError"
        /\ error.failedAtIndex = i

\* C4: the sample with index 0 gets rotation 0 whatever the draw; a sample with
\* index >= 1 gets (u - 0.5) * 40 for its draw u, which lies in [-20, 20] degrees.
C4_Rotation ==
    (aug.stage \notin {"none", "geometric"}) =>
        /\ aug.index = 0 => aug.rot = 0
        /\ aug.index >= 1 =>
              /\ -(RotSpan \div 2) * Den <= aug.rot
              /\ aug.rot <= (RotSpan \div 2) * Den
              /\ \E u \in Draws : aug.rot * 2 = (2 * u - Den) * RotSpan

C4_Witness == aug.stage = "done" /\ aug.index = 0 /\ aug.rot = 0

\* C5: whatever the draws, fog is never applied when harshness <= 50, rain never
\* when harshness <= 70, glare never when lightAging <= 60.
C5_ThresholdGates ==
    /\ aug.fog => aug.q.harshness > FogThreshold
    /\ aug.rain => aug.q.harshness > RainThreshold
    /\ aug.glare => aug.q.lightAging > GlareThreshold

C5_Witness ==
    /\ aug.stage = "done"
    /\ aug.q.harshness = FogThreshold
    /\ aug.q.lightAging = GlareThreshold
    /\ ~aug.fog /\ ~aug.rain /\ ~aug.glare

\* share of the uniform draws for which a gate opens, in cells out of Cells
Cells         == Cardinality(MidDraws)
FogShare(h)   == Cardinality({u \in MidDraws : FogGate(h, u)})
RainShare(h)  == Cardinality({u \in MidDraws : RainGate(h, u)})
GlareShare(l) == Cardinality({u \in MidDraws : GlareGate(l, u)})
NoiseShare(h) == Cardinality({u \in MidDraws : NoiseHit(h, u)})

OverlayShares(fogPct, rainPct, glarePct) ==
    (aug.stage = "artifact") =>
        /\ aug.q.harshness > FogThreshold => FogShare(aug.q.harshness) * 100 = fogPct * Cells
        /\ aug.q.harshness > RainThreshold => RainShare(aug.q.harshness) * 100 = rainPct * Cells
        /\ aug.q.lightAging > GlareThreshold => GlareShare(aug.q.lightAging) * 100 = glarePct * Cells

\* C6 (as claimed): with its threshold met, fog is applied for 50% of the
\* uniform draws, rain for 60%, glare for 70%.
C6_SharesAsClaimed == OverlayShares(50, 60, 70)

\* C6 (amended): with its threshold met, fog is applied for 50% of the uniform
\* draws (u > 0.5), rain for 40% (u > 0.6), glare for 30% (u > 0.7).
C6_Shares == OverlayShares(50, 40, 30)

C6_Witness ==
    /\ aug.stage = "artifact"
    /\ aug.q.harshness = SliderMax /\ aug.q.lightAging = SliderMax
    /\ aug.fog /\ aug.rain /\ aug.glare

\* C7: at harshness 0 no pixel is ever replaced by salt-and-pepper noise; at
\* harshness 100 the draws that corrupt a pixel (u > 1 - harshness/5000) are 2%
\* of the uniform draws.
C7_NoiseDensity ==
    /\ aug.q.harshness = 0 => (aug.noisy = {} /\ NoiseShare(aug.q.harshness) = 0)
    /\ (aug.stage = "fog" /\ aug.q.harshness = SliderMax) =>
          NoiseShare(aug.q.harshness) * 100 = 2 * Cells

C7_Witness ==
    /\ aug.stage = "fog"
    /\ aug.q.harshness = SliderMax
    /\ aug.noisy = {1}
    /\ PixelCount(aug.canvas) = 2

\* C8: every sample of a batch, in flight or published, carries the harshness,
\* lightAging and dirtiness that were current when the batch started, whatever
\* the sliders did since.
SampleParams(s) ==
    [harshness |-> s.harshness, lightAging |-> s.lightAging, dirtiness |-> s.dirtiness]

C8_FixedParams ==
    /\ \A k \in 1 .. Len(newResults) : SampleParams(newResults[k]) = p
    /\ \A k \in 1 .. Len(results) : SampleParams(results[k]) = p

C8_Witness ==
    /\ pc = "run"
    /\ Len(newResults) = AUGMENTATION_COUNT
    /\ params # p

\* C9 (as claimed): once the host has abandoned a running batch, no further
\* sample is generated for it.
C9_StopsWhenCancelled ==
    [][(withdrawn /\ pc # "idle") => newResults' = newResults]_vars

\* a host event ran at one of the pc values of ps (or none ran yet)
HostOnlyAt(ps) == hostAt \in ps \cup {"none"}

\* C10 (as claimed): at most 4 samples in a row without a yield, and a host
\* event during a batch runs only at the yield after a sample whose index is a
\* multiple of 4.
C10_YieldsAsClaimed ==
    /\ sinceYield <= YieldEvery
    /\ pc = "yield" => (i % YieldEvery = 0 /\ Len(newResults) = i + 1)
    /\ HostOnlyAt({"idle", "failed", "yield"})

\* C10 (amended): at most 4 samples in a row without a yield, and a host event
\* during a batch runs only at the yield after a sample whose index is a
\* multiple of 4, or while the driver still awaits the load event of the image,
\* before sample 0.
C10_Yields ==
    /\ sinceYield <= YieldEvery
    /\ pc = "yield" => (i % YieldEvery = 0 /\ Len(newResults) = i + 1)
    /\ pc = "run" => Len(newResults) = i
    /\ HostOnlyAt({"idle", "failed", "yield", "load"})

C10_Witness == pc = "yield" /\ sinceYield = YieldEvery /\ hostAt = "yield"

\* pixels whose photometric remap has run, and pixels whose noise trial has run:
\* each iteration of the pixel loop does both for its pixel
Remapped(a) == IF a.px = 0 THEN 0 ELSE a.px - 1
NoiseRun(a) == IF a.px = 0 THEN 0 ELSE a.px - 1

\* the stage order of the claim, on the stage names of the model
ClaimedOrder ==
    <<"geometric", "photometric", "pixels", "fog", "rain", "glare", "artifact", "encode", "done">>

FollowsClaimedOrder(a, b) ==
    \/ \E k \in 1 .. (Len(ClaimedOrder) - 1) :
          a.stage = ClaimedOrder[k] /\ b.stage = ClaimedOrder[k + 1] /\ b.index = a.index
    \/ a.stage = "pixels" /\ b.stage = "pixels" /\ b.px = a.px + 1 /\ b.index = a.index
    \/ a.stage \in {"geometric", "photometric"} /\ b.stage = "threw" /\ b.index = a.index
    \/ a.stage = "done" /\ b.stage = "geometric" /\ b.index = a.index + 1

\* C11 (as claimed): the stages of a sample run in the order geometric,
\* photometric, noise, fog, rain, glare, artifact, encode, no stage starting
\* before the previous one has finished (so no noise trial runs while a pixel
\* still awaits its photometric remap), and the next sample starts only after
\* this one is encoded.
C11_OrderAsClaimed ==
    [][/\ FollowsClaimedOrder(aug, aug')
       /\ NoiseRun(aug') > 0 => Remapped(aug') = PixelCount(aug'.canvas)]_vars

\* C11 (amended): the stages of a sample run in the order geometric,
\* photometric and noise, fog, rain, glare, artifact, encode, and the next
\* sample starts only after this one is encoded; photometric and noise share one
\* pass over the pixels, in which each pixel gets its noise trial right after
\* its own photometric remap, before the next pixel is remapped.
C11_Order ==
    [][/\ FollowsClaimedOrder(aug, aug')
       /\ NoiseRun(aug') <= Remapped(aug')
       /\ Remapped(aug') <= NoiseRun(aug') + 1]_vars

C11_Witness ==
    /\ aug.stage = "pixels"
    /\ PixelCount(aug.canvas) = 2
    /\ NoiseRun(aug) = 1

\* C13: two distinct samples of one batch (distinct indexes) get distinct file
\* names aug_<timestamp>_<index>.jpg, whatever their timestamps, equal ones
\* included; each name carries the index of its own sample after the last "_".
C13_DistinctNames ==
    (naming.stage = "done") =>
        /\ naming.iA # naming.iB => naming.nameA # naming.nameB
        /\ \E k \in 1 .. Len(naming.nameA) :
              /\ naming.nameA[k] = "_"
              /\ SubSeq(naming.nameA, k + 1, Len(naming.nameA))
                    = Digits(naming.iA) \o <<".", "j", "p", "g">>
        /\ SubSeq(naming.nameA, 1, 4) = <<"a", "u", "g", "_">>

C13_Witness ==
    /\ naming.stage = "done"
    /\ naming.tsA = naming.tsB
    /\ naming.iA = 1 /\ naming.iB = 11

RainShape(maxLen) ==
    aug.rain =>
        /\ 100 <= aug.segs /\ aug.segs <= 300
        /\ 10 * Den <= aug.rlen /\ aug.rlen <= maxLen * Den

\* C14 (as claimed): when rain is applied, 100 to 300 segments are drawn and the
\* length parameter of every segment is between 10 and 30.
C14_RainAsClaimed == RainShape(30)

\* C14 (amended): when rain is applied, 100 to 300 segments are drawn and the
\* length parameter of every segment is at least 10 and below 40
\* (rlen = 10 + u * 30 for a draw u in [0,1)).
C14_Rain == RainShape(40) /\ (aug.rain => aug.rlen < 40 * Den)

C14_Witness == aug.rain /\ aug.stage = "glare" /\ aug.rlen > 30 * Den /\ aug.segs > 200

\* C15 (as claimed): every batch that was started finishes: isProcessing, once
\* true, eventually becomes false again, also when the image never fires its
\* load event or a stage throws.
C15_BatchEnds == isProcessing ~> ~isProcessing

\* C16 (as claimed): a non-empty results list was generated from the source
\* image currently held in sourceImage.
C16_ResultsOfCurrentSource ==
    (results # <<>>) =>
        /\ sourceImage # NoImage
        /\ \A k \in 1 .. Len(results) : results[k].src = sourceImage.id

\* C17 (as claimed): previewIndex is null or an index of results; handleNext
\* goes from the last index to 0 and handlePrev from 0 to the last index, and
\* both leave a null previewIndex alone.
C17_PreviewInRange ==
    /\ previewIndex = NullIndex \/ (0 <= previewIndex /\ previewIndex < Len(results))
    /\ NextPreviewIndex(NullIndex, Len(results)) = NullIndex
    /\ PrevPreviewIndex(NullIndex, Len(results)) = NullIndex
    /\ results # <<>> =>
          /\ NextPreviewIndex(Len(results) - 1, Len(results)) = 0
          /\ PrevPreviewIndex(0, Len(results)) = Len(results) - 1

====
